---- MODULE Spec2Model ----
(***************************************************************************)
(* Coachboard (src/app.js): the project document, its write-through copy   *)
(* in local storage, the roster and timestamp managers, the telestration   *)
(* recorder and the video facade, as one state machine whose actions are   *)
(* the event handlers of the page.                                         *)
(*                                                                         *)
(* Conventions.  A text is a sequence of tokens, a space being a token of  *)
(* its own.                                                                *)
(* JavaScript null and NaN are the integers Null and NaN.  A JavaScript    *)
(* object captured by a closure (an annotation held by a rendered button)  *)
(* is a reference: its index in state.timestamps while it is part of the   *)
(* document, "detached" once the document dropped it, "null" when the      *)
(* closure captured no object.  Every clock reading and random draw of     *)
(* uidNumeric is an input of the handler that calls it.                    *)
(***************************************************************************)
EXTENDS Integers, Sequences, FiniteSets, TLC

\* ------------------------------------------------------------------ bounds
MaxClock == 1       \* clock readings (seconds) are 1..MaxClock
NumRand == 2        \* the random suffix of an id is 0..NumRand-1
MaxRoster == 2      \* athletes in the roster
MaxTs == 2          \* annotations in the document
MaxStrokes == 1     \* committed strokes in the document
MaxPoints == 2      \* points of a stroke in progress
MaxTime == 0        \* player.getCurrentTime() is 0..MaxTime
MaxCsvRows == 1     \* data rows of an imported roster CSV
MaxTags == 2        \* tags of an annotation
MaxDocument == 2    \* athletes and annotations of a document that is exported

\* ------------------------------------------------------- program constants
RandRange == 1000   \* Math.random()*1000
NaN == -1           \* Number("abc")
Null == -2          \* null

\* ------------------------------------------------------------------ values
Truthy(x) == x \notin {Null, NaN, 0}

\* Number(x) for an id value: Number(null) is 0, NaN and numbers are kept.
Number(x) == IF x = Null THEN 0 ELSE x

\* a === b on id values: NaN equals nothing, itself included.
StrictEq(a, b) == a # NaN /\ a = b

\* Array.prototype.includes / Map keys (SameValueZero): NaN equals NaN.
SameValueZero(a, b) == a = b

\* Number(String(x)): an id written into an HTML attribute and read back.
AttrNumber(x) == IF x \in {NaN, Null} THEN NaN ELSE x

Rands == 0 .. (NumRand - 1)
Clock == 1 .. MaxClock

\* uidNumeric(): YYMMDDHHMMSS followed by three random digits, as a number.
uidNumeric(sec, rand) == sec * RandRange + rand

Range(s) == {s[i] : i \in 1 .. Len(s)}

\* String.prototype.trim on a sequence of tokens.
RECURSIVE TrimLeft(_)
TrimLeft(s) == IF s # <<>> /\ Head(s) = " " THEN TrimLeft(Tail(s)) ELSE s
RECURSIVE TrimRight(_)
TrimRight(s) ==
    IF s # <<>> /\ s[Len(s)] = " " THEN TrimRight(SubSeq(s, 1, Len(s) - 1)) ELSE s
Trim(s) == TrimRight(TrimLeft(s))

\* A roster or timestamps element that is JSON null.
NullElem == [isNull |-> TRUE]
HasNull(seq) == \E i \in 1 .. Len(seq) : seq[i] = NullElem

\* ------------------------------------------------------------ JSON
\* JSON.stringify writes NaN as null; every other value of the document is
\* written as it is.  The text is modelled by the value it parses to.
JsonNumber(x) == IF x = NaN THEN Null ELSE x

JsonAthlete(a) == IF a = NullElem THEN a ELSE [a EXCEPT !.id = JsonNumber(a.id)]

JsonTs(t) ==
    [t EXCEPT !.taggedAthleteIds =
        [i \in 1 .. Len(t.taggedAthleteIds) |-> JsonNumber(t.taggedAthleteIds[i])]]

JSONStringify(doc) ==
    [doc EXCEPT !.roster = [i \in 1 .. Len(doc.roster) |-> JsonAthlete(doc.roster[i])],
                !.timestamps = [i \in 1 .. Len(doc.timestamps) |-> JsonTs(doc.timestamps[i])]]

\* A file or stored text: unparsable, a JSON value that is no object, or an
\* object; hasRoster/hasTimestamps say whether those keys hold arrays.
JsonFile(doc) ==
    [parse |-> "object", hasRoster |-> TRUE, hasTimestamps |-> TRUE, doc |-> JSONStringify(doc)]

\* ------------------------------------------------------------ references
RefNull == [kind |-> "null", idx |-> 0]
RefDetached == [kind |-> "detached", idx |-> 0]
RefLive(i) == [kind |-> "live", idx |-> i]

\* state.timestamps.find(t => t.id === id): the index of the first match, 0 if none.
FindTs(timestamps, id) ==
    IF \E i \in 1 .. Len(timestamps) : StrictEq(timestamps[i].id, id)
    THEN CHOOSE i \in 1 .. Len(timestamps) :
            /\ StrictEq(timestamps[i].id, id)
            /\ \A j \in 1 .. (i - 1) : ~StrictEq(timestamps[j].id, id)
    ELSE 0

FindRef(timestamps, id) ==
    LET ts == FindTs(timestamps, id) IN IF ts = 0 THEN RefNull ELSE RefLive(ts)

\* Where a captured annotation is after state.timestamps.filter(t => t.id !== id).
AfterFilter(ref, timestamps, id) ==
    IF ref.kind # "live" THEN ref
    ELSE IF StrictEq(timestamps[ref.idx].id, id) THEN RefDetached
    ELSE RefLive(ref.idx - Cardinality({j \in 1 .. (ref.idx - 1) : StrictEq(timestamps[j].id, id)}))

\* Where a captured annotation is after state.timestamps was replaced as a whole.
AfterReplace(ref) == IF ref.kind = "live" THEN RefDetached ELSE ref


\* ------------------------------------------------------------------- state
VARIABLES
    state,           \* the project document (src/app.js:112)
    stored,          \* localStorage[LS_KEY]: <<>> or <<text>>
    apiInjected,     \* the YouTube script tag was added by init()
    player,          \* player is an object (not null)
    playerReady,
    pendingVideoId,  \* "" stands for null
    playerVideo,     \* the video id the player was last given
    selectedTsId,
    drawEnabled,
    drawings,        \* the active drawing buffer
    activeStroke,    \* <<>> or <<stroke>>
    delButtons,      \* ids bound to the Delete buttons of the roster table
    tsList,          \* ids bound to the rows of the timestamp list
    pills,           \* the tag pills: the annotation and the ids they captured
    athButtons,      \* the Tag buttons: the annotation and the ids they captured
    download,        \* the file last handed to the browser's download: <<>> or <<[file, of]>>,
                     \* of being the document in memory when it was written (history)
    gesture          \* history of the stroke in progress: <<>> or <<[ts, pts, alone, ended]>>

docVars == <<state, stored>>
playerVars == <<apiInjected, player, playerReady, pendingVideoId, playerVideo>>
drawVars == <<drawEnabled, drawings, activeStroke>>
uiVars == <<delButtons, tsList, pills, athButtons>>
vars == <<state, stored, apiInjected, player, playerReady, pendingVideoId, playerVideo,
          selectedTsId, drawEnabled, drawings, activeStroke,
          delButtons, tsList, pills, athButtons, download, gesture>>

\* ------------------------------------------------------------ persistence
saveState(doc) == <<JsonFile(doc)>>

DefaultState(sec, rand) ==
    [projectId |-> uidNumeric(sec, rand), youtubeUrl |-> "", youtubeId |-> "",
     roster |-> <<>>, timestamps |-> <<>>]

\* loadState() taking the fields of whatever the stored text holds.
loadState_withoutObjectCheck(raw, default) ==
    IF raw = <<>> THEN default
    ELSE [projectId |-> raw[1].doc.projectId,
          youtubeUrl |-> raw[1].doc.youtubeUrl,
          youtubeId |-> raw[1].doc.youtubeId,
          roster |-> IF raw[1].hasRoster THEN raw[1].doc.roster ELSE <<>>,
          timestamps |-> IF raw[1].hasTimestamps THEN raw[1].doc.timestamps ELSE <<>>]

\* loadState(): the stored object's fields over the defaults, arrays ensured.
loadState(raw, default) ==
    IF raw = <<>> THEN default
    ELSE IF raw[1].parse # "object" THEN default
    ELSE [projectId |-> raw[1].doc.projectId,
          youtubeUrl |-> raw[1].doc.youtubeUrl,
          youtubeId |-> raw[1].doc.youtubeId,
          roster |-> IF raw[1].hasRoster THEN raw[1].doc.roster ELSE <<>>,
          timestamps |-> IF raw[1].hasTimestamps THEN raw[1].doc.timestamps ELSE <<>>]

\* ---------------------------------------------------------------- rendering
NoButtons == [ts |-> RefNull, ids |-> {}]

\* renderRosterTable(): the ids of the Delete buttons.  A null row throws after
\* the table body was emptied, so no button is bound.
renderRosterTable(doc) ==
    IF HasNull(doc.roster) THEN {}
    ELSE {AttrNumber(doc.roster[i].id) : i \in 1 .. Len(doc.roster)}

renderRosterTableThrows(doc) == HasNull(doc.roster)

\* renderTimestampList(): the ids the rows select when clicked.
renderTimestampList(doc) == {doc.timestamps[i].id : i \in 1 .. Len(doc.timestamps)}

\* renderTaggedAthletes(): one pill per tag of the selected annotation.
renderTaggedAthletes(doc, sel) ==
    LET ts == FindTs(doc.timestamps, sel) IN
    IF ts = 0 THEN NoButtons
    ELSE IF doc.timestamps[ts].taggedAthleteIds = <<>> THEN NoButtons
    ELSE [ts |-> RefLive(ts), ids |-> Range(doc.timestamps[ts].taggedAthleteIds)]

\* renderAthleteSearchResults(): one Tag button per athlete, each holding the
\* annotation found for the selection at render time (null without one).
renderAthleteSearchResultsThrows(doc) == HasNull(doc.roster)

renderAthleteSearchResults(doc, sel) ==
    IF doc.roster = <<>> \/ HasNull(doc.roster) THEN NoButtons
    ELSE [ts |-> IF Truthy(sel) THEN FindRef(doc.timestamps, sel) ELSE RefNull,
          ids |-> {doc.roster[i].id : i \in 1 .. Len(doc.roster)}]

\* A captured annotation after the document's annotation list changed.
Retarget(buttons, ref) == IF buttons.ids = {} THEN NoButtons ELSE [buttons EXCEPT !.ts = ref]

\* ------------------------------------------------------- gesture history
\* Of the stroke in progress: ts, the annotation that was selected when its
\* pointer-down was accepted; pts, the points delivered to it; alone, whether
\* only pointer-moves followed that pointer-down; ended, whether a pointer-up
\* or pointer-cancel was delivered since.
Interrupted(g) == IF g = <<>> THEN <<>> ELSE <<[g[1] EXCEPT !.alone = FALSE]>>
Ended(g) == IF g = <<>> THEN <<>> ELSE <<[g[1] EXCEPT !.alone = FALSE, !.ended = TRUE]>>

\* -------------------------------------------------------------------- init
Init ==
    /\ \E sec \in Clock, rand \in Rands : state = DefaultState(sec, rand)
    /\ stored = <<>>
    /\ apiInjected = TRUE
    /\ player = FALSE
    /\ playerReady = FALSE
    /\ pendingVideoId = ""
    /\ playerVideo = ""
    /\ selectedTsId = Null
    /\ drawEnabled = FALSE
    /\ drawings = <<>>
    /\ activeStroke = <<>>
    /\ delButtons = {}
    /\ tsList = {}
    /\ pills = NoButtons
    /\ athButtons = NoButtons
    /\ download = <<>>
    /\ gesture = <<>>

\* ------------------------------------------------------------------ roster
FirstNames == {<<" ">>, <<" ", "A">>}
LastNames == {<<>>, <<"B", ",", " ", "\"", "J">>}
Positions == {<<>>}
Jerseys == {<<>>}
Teams == {<<>>}

\* addAthlete() requiring the first name only.
addAthlete_requiresOnlyFirst(first, last, position, jersey, team, sec, rand) ==
    IF Trim(first) = <<>>
    THEN /\ gesture' = Interrupted(gesture)
         /\ UNCHANGED <<docVars, playerVars, selectedTsId, drawVars, uiVars>>
    ELSE /\ Len(state.roster) < MaxRoster
         /\ state' = [state EXCEPT !.roster = Append(@,
                [id |-> uidNumeric(sec, rand), first |-> Trim(first), last |-> Trim(last),
                 position |-> Trim(position), jersey |-> Trim(jersey), team |-> Trim(team)])]
         /\ stored' = saveState(state')
         /\ delButtons' = renderRosterTable(state')
         /\ gesture' = Interrupted(gesture)
         /\ UNCHANGED <<playerVars, selectedTsId, drawVars, tsList, pills, athButtons>>

\* addAthlete()
addAthlete(first, last, position, jersey, team, sec, rand) ==
    IF Trim(first) = <<>> \/ Trim(last) = <<>>
    THEN /\ gesture' = Interrupted(gesture)
         /\ UNCHANGED <<docVars, playerVars, selectedTsId, drawVars, uiVars>>
    ELSE /\ Len(state.roster) < MaxRoster
         /\ state' = [state EXCEPT !.roster = Append(@,
                [id |-> uidNumeric(sec, rand), first |-> Trim(first), last |-> Trim(last),
                 position |-> Trim(position), jersey |-> Trim(jersey), team |-> Trim(team)])]
         /\ stored' = saveState(state')
         /\ delButtons' = renderRosterTable(state')
         /\ gesture' = Interrupted(gesture)
         /\ UNCHANGED <<playerVars, selectedTsId, drawVars, tsList, pills, athButtons>>

\* The tag list without id: (ts.taggedAthleteIds||[]).filter(aid => Number(aid) !== id)
withoutTag(tags, id) == SelectSeq(tags, LAMBDA aid : ~StrictEq(Number(aid), id))

\* The Delete button of a roster row without its loop over the timestamps.
deleteAthlete_keepsTags(id) ==
    /\ id \in delButtons
    /\ ~HasNull(state.roster)
    /\ state' = [state EXCEPT
            !.roster = SelectSeq(@, LAMBDA x : ~StrictEq(Number(x.id), id))]
    /\ stored' = saveState(state')
    /\ delButtons' = renderRosterTable(state')
    /\ tsList' = renderTimestampList(state')
    /\ athButtons' = renderAthleteSearchResults(state', selectedTsId)
    /\ gesture' = Interrupted(gesture)
    /\ UNCHANGED <<playerVars, selectedTsId, drawVars, pills>>

\* The Delete button of a roster row (renderRosterTable, btn.onclick).
deleteAthlete(id) ==
    /\ id \in delButtons
    /\ ~HasNull(state.roster)
    /\ state' = [state EXCEPT
            !.roster = SelectSeq(@, LAMBDA x : ~StrictEq(Number(x.id), id)),
            !.timestamps = [i \in 1 .. Len(@) |->
                [@[i] EXCEPT !.taggedAthleteIds = withoutTag(@, id)]]]
    /\ stored' = saveState(state')
    /\ delButtons' = renderRosterTable(state')
    /\ tsList' = renderTimestampList(state')
    /\ athButtons' = renderAthleteSearchResults(state', selectedTsId)
    /\ gesture' = Interrupted(gesture)
    /\ UNCHANGED <<playerVars, selectedTsId, drawVars, pills>>

\* clearRoster()
clearRoster ==
    /\ state' = [state EXCEPT
            !.roster = <<>>,
            !.timestamps = [i \in 1 .. Len(@) |-> [@[i] EXCEPT !.taggedAthleteIds = <<>>]]]
    /\ stored' = saveState(state')
    /\ delButtons' = renderRosterTable(state')
    /\ tsList' = renderTimestampList(state')
    /\ athButtons' = renderAthleteSearchResults(state', selectedTsId)
    /\ gesture' = Interrupted(gesture)
    /\ UNCHANGED <<playerVars, selectedTsId, drawVars, pills>>


\* -------------------------------------------------------------- timestamps
DefaultTitle == <<"New", " ", "coaching", " ", "point">>
TitleInputs == {<<"R">>}
DescInputs == {<<" ", "n">>}
Times == 0 .. MaxTime

\* selectTimestamp(id), from the views `ui` as they are when it is called: the
\* selection is set first, the rest only when the annotation is found.
selectTimestamp(doc, id, ui) ==
    LET ts == FindTs(doc.timestamps, id) IN
    IF ts = 0
    THEN [ui EXCEPT !.selectedTsId = id]
    ELSE [selectedTsId |-> id,
          drawings |-> doc.timestamps[ts].drawings,
          pills |-> renderTaggedAthletes(doc, id),
          tsList |-> renderTimestampList(doc),
          athButtons |-> renderAthleteSearchResults(doc, id)]

Views == [selectedTsId |-> selectedTsId, drawings |-> drawings, pills |-> pills,
          tsList |-> tsList, athButtons |-> athButtons]

SetViews(ui) ==
    /\ selectedTsId' = ui.selectedTsId
    /\ drawings' = ui.drawings
    /\ pills' = ui.pills
    /\ tsList' = ui.tsList
    /\ athButtons' = ui.athButtons

\* A row of the timestamp list is clicked (renderTimestampList, div.onclick).
clickTimestamp(id) ==
    /\ id \in tsList
    /\ SetViews(selectTimestamp(state, id, Views))
    /\ gesture' = Interrupted(gesture)
    /\ UNCHANGED <<docVars, playerVars, drawEnabled, activeStroke,                    delButtons>>

\* addTimestampAtCurrent()
addTimestampAtCurrent(time, sec, rand) ==
    /\ gesture' = Interrupted(gesture)
    /\ IF ~player
       THEN UNCHANGED <<docVars, playerVars, selectedTsId, drawVars, uiVars>>
       ELSE /\ Len(state.timestamps) < MaxTs
            /\ state' = [state EXCEPT !.timestamps = Append(@,
                    [id |-> uidNumeric(sec, rand), time |-> time, title |-> DefaultTitle,
                     description |-> <<>>, taggedAthleteIds |-> <<>>, drawings |-> <<>>])]
            /\ stored' = saveState(state')
            /\ SetViews(selectTimestamp(state', uidNumeric(sec, rand),
                    [Views EXCEPT !.tsList = renderTimestampList(state')]))
            /\ UNCHANGED <<playerVars, drawEnabled, activeStroke, delButtons>>

\* saveTimestampEdits()
saveTimestampEdits(title, description) ==
    LET ts == FindTs(state.timestamps, selectedTsId) IN
    /\ gesture' = Interrupted(gesture)
    /\ IF ~Truthy(selectedTsId) \/ ts = 0
       THEN UNCHANGED <<docVars, playerVars, selectedTsId, drawVars, uiVars>>
       ELSE /\ state' = [state EXCEPT !.timestamps[ts] =
                    [@ EXCEPT !.title = Trim(title), !.description = Trim(description)]]
            /\ stored' = saveState(state')
            /\ tsList' = renderTimestampList(state')
            /\ UNCHANGED <<playerVars, selectedTsId, drawVars, delButtons, pills, athButtons>>

\* deleteTimestamp()
deleteTimestamp ==
    IF ~Truthy(selectedTsId)
    THEN /\ gesture' = Interrupted(gesture)
         /\ UNCHANGED <<docVars, playerVars, selectedTsId, drawVars, uiVars>>
    ELSE /\ state' = [state EXCEPT !.timestamps =
                SelectSeq(@, LAMBDA t : ~StrictEq(t.id, selectedTsId))]
         /\ selectedTsId' = Null
         /\ pills' = NoButtons
         /\ drawings' = <<>>
         /\ stored' = saveState(state')
         /\ tsList' = renderTimestampList(state')
         /\ athButtons' = Retarget(athButtons,
                AfterFilter(athButtons.ts, state.timestamps, selectedTsId))
         /\ gesture' = IF gesture = <<>> THEN <<>>
                       ELSE <<[gesture[1] EXCEPT
                                !.ts = AfterFilter(@, state.timestamps, selectedTsId),
                                !.alone = FALSE]>>
         /\ UNCHANGED <<playerVars, drawEnabled, activeStroke, delButtons>>

\* ----------------------------------------------------------------- tagging
\* ts.taggedAthleteIds.filter(x => Number(x) !== Number(id))
withoutPill(tags, id) == SelectSeq(tags, LAMBDA x : ~StrictEq(Number(x), Number(id)))

\* if (!ts.taggedAthleteIds.includes(a.id)) ts.taggedAthleteIds.push(a.id)
withTag(tags, id) ==
    IF \E i \in 1 .. Len(tags) : SameValueZero(tags[i], id) THEN tags ELSE Append(tags, id)

\* The document after the handler changed the tag list of the captured annotation.
TagsChanged(ref, Change(_)) ==
    IF ref.kind = "live"
    THEN [state EXCEPT !.timestamps[ref.idx].taggedAthleteIds = Change(@)]
    ELSE state

\* A tag pill is clicked (renderTaggedAthletes, pill.onclick).
clickPill(id) ==
    /\ id \in pills.ids
    /\ state' = TagsChanged(pills.ts, LAMBDA tags : withoutPill(tags, id))
    /\ stored' = saveState(state')
    /\ pills' = renderTaggedAthletes(state', selectedTsId)
    /\ tsList' = renderTimestampList(state')
    /\ athButtons' = renderAthleteSearchResults(state', selectedTsId)
    /\ gesture' = Interrupted(gesture)
    /\ UNCHANGED <<playerVars, selectedTsId, drawVars, delButtons>>

\* A Tag button is clicked (renderAthleteSearchResults, button.onclick).  With no
\* annotation captured, reading ts.taggedAthleteIds throws and nothing is done.
\* The button's handler reads ts.taggedAthleteIds of the ts it captured: with
\* no annotation found at render time ts is null and the read throws.
clickTagButtonThrows(id) == id \in athButtons.ids /\ athButtons.ts.kind = "null"

clickTagButton(id) ==
    /\ id \in athButtons.ids
    /\ gesture' = Interrupted(gesture)
    /\ IF athButtons.ts.kind = "null"
       THEN UNCHANGED <<docVars, playerVars, selectedTsId, drawVars, uiVars>>
       ELSE /\ athButtons.ts.kind = "live" =>
                    Len(withTag(state.timestamps[athButtons.ts.idx].taggedAthleteIds, id))
                        <= MaxTags
            /\ state' = TagsChanged(athButtons.ts, LAMBDA tags : withTag(tags, id))
            /\ stored' = saveState(state')
            /\ pills' = renderTaggedAthletes(state', selectedTsId)
            /\ tsList' = renderTimestampList(state')
            /\ athButtons' = renderAthleteSearchResults(state', selectedTsId)
            /\ UNCHANGED <<playerVars, selectedTsId, drawVars,                            delButtons>>


\* ------------------------------------------------------------ telestration
Max(a, b) == IF a > b THEN a ELSE b
Min(a, b) == IF a < b THEN a ELSE b

\* relPoint(clientX, clientY) on a canvas whose rectangle is the unit square.
relPoint(clientX, clientY) ==
    [x |-> Max(0, Min(1, clientX)), y |-> Max(0, Min(1, clientY))]

ClientXs == {-1, 1}
ClientYs == {0}
Colors == {"#00E5FF"}
Sizes == {4}

RECURSIVE SumLen(_)
SumLen(lists) == IF lists = <<>> THEN 0 ELSE Len(Head(lists)) + SumLen(Tail(lists))
TotalStrokes(doc) == SumLen([i \in 1 .. Len(doc.timestamps) |-> doc.timestamps[i].drawings])

\* The points delivered so far to a gesture nothing else has interrupted.
Delivered(g, pt) ==
    IF g # <<>> /\ g[1].alone THEN <<[g[1] EXCEPT !.pts = Append(@, pt)]>> ELSE g

\* pointerDown without its test of drawEnabled.
pointerDown_ignoresDrawEnabled(clientX, clientY, color, size, sec, rand) ==
    IF ~Truthy(selectedTsId)
    THEN /\ gesture' = Interrupted(gesture)
         /\ UNCHANGED <<docVars, playerVars, selectedTsId, drawVars, uiVars>>
    ELSE /\ activeStroke' = <<[id |-> uidNumeric(sec, rand), tool |-> "pen", color |-> color,
                               size |-> size, points |-> <<relPoint(clientX, clientY)>>,
                               createdAt |-> sec]>>
         /\ gesture' = <<[ts |-> FindRef(state.timestamps, selectedTsId),
                          pts |-> <<relPoint(clientX, clientY)>>, alone |-> TRUE,
                          ended |-> FALSE]>>
         /\ UNCHANGED <<docVars, playerVars, selectedTsId, drawEnabled, drawings, uiVars>>

\* pointerDown(e)
pointerDown(clientX, clientY, color, size, sec, rand) ==
    IF ~drawEnabled
    THEN /\ gesture' = Interrupted(gesture)
         /\ UNCHANGED <<docVars, playerVars, selectedTsId, drawVars, uiVars>>
    ELSE IF ~Truthy(selectedTsId)
    THEN /\ gesture' = Interrupted(gesture)
         /\ UNCHANGED <<docVars, playerVars, selectedTsId, drawVars, uiVars>>
    ELSE /\ activeStroke' = <<[id |-> uidNumeric(sec, rand), tool |-> "pen", color |-> color,
                               size |-> size, points |-> <<relPoint(clientX, clientY)>>,
                               createdAt |-> sec]>>
         /\ gesture' = <<[ts |-> FindRef(state.timestamps, selectedTsId),
                          pts |-> <<relPoint(clientX, clientY)>>, alone |-> TRUE,
                          ended |-> FALSE]>>
         /\ UNCHANGED <<docVars, playerVars, selectedTsId, drawEnabled, drawings, uiVars>>

\* pointerMove overwriting the points of the stroke instead of pushing one.
pointerMove_replacesLastPoint(clientX, clientY) ==
    IF ~drawEnabled \/ activeStroke = <<>>
    THEN /\ gesture' = Interrupted(gesture)
         /\ UNCHANGED <<docVars, playerVars, selectedTsId, drawVars, uiVars>>
    ELSE /\ Len(activeStroke[1].points) < MaxPoints
         /\ activeStroke' = <<[activeStroke[1] EXCEPT
                !.points = <<relPoint(clientX, clientY)>>]>>
         /\ gesture' = Delivered(gesture, relPoint(clientX, clientY))
         /\ UNCHANGED <<docVars, playerVars, selectedTsId, drawEnabled, drawings, uiVars>>

\* pointerMove(e)
pointerMove(clientX, clientY) ==
    IF ~drawEnabled \/ activeStroke = <<>>
    THEN /\ gesture' = Interrupted(gesture)
         /\ UNCHANGED <<docVars, playerVars, selectedTsId, drawVars, uiVars>>
    ELSE /\ Len(activeStroke[1].points) < MaxPoints
         /\ activeStroke' = <<[activeStroke[1] EXCEPT
                !.points = Append(@, relPoint(clientX, clientY))]>>
         /\ gesture' = Delivered(gesture, relPoint(clientX, clientY))
         /\ UNCHANGED <<docVars, playerVars, selectedTsId, drawEnabled, drawings, uiVars>>

\* pointerUp(e), the listener of pointerup and of pointercancel.
pointerUp ==
    LET ts == FindTs(state.timestamps, selectedTsId) IN
    IF ~drawEnabled \/ activeStroke = <<>> \/ ts = 0
    THEN /\ gesture' = Ended(gesture)
         /\ UNCHANGED <<docVars, playerVars, selectedTsId, drawVars, uiVars>>
    ELSE /\ TotalStrokes(state) < MaxStrokes
         /\ state' = [state EXCEPT !.timestamps[ts].drawings = Append(@, activeStroke[1])]
         /\ drawings' = state'.timestamps[ts].drawings
         /\ activeStroke' = <<>>
         /\ stored' = saveState(state')
         /\ gesture' = <<>>
         /\ UNCHANGED <<playerVars, selectedTsId, drawEnabled, uiVars>>

\* drawToggleBtn.onclick
toggleDraw ==
    /\ drawEnabled' = ~drawEnabled
    /\ gesture' = Interrupted(gesture)
    /\ UNCHANGED <<docVars, playerVars, selectedTsId, drawings, activeStroke, uiVars>>

\* clearDrawBtn.onclick
clearDrawings ==
    LET ts == FindTs(state.timestamps, selectedTsId) IN
    /\ gesture' = Interrupted(gesture)
    /\ IF ~Truthy(selectedTsId) \/ ts = 0
       THEN UNCHANGED <<docVars, playerVars, selectedTsId, drawVars, uiVars>>
       ELSE /\ state' = [state EXCEPT !.timestamps[ts].drawings = <<>>]
            /\ drawings' = <<>>
            /\ stored' = saveState(state')
            /\ UNCHANGED <<playerVars, selectedTsId, drawEnabled, activeStroke, uiVars>>

\* ------------------------------------------------------------ roster CSV
Digits == <<"0", "1", "2", "3", "4", "5", "6", "7", "8", "9">>
IsDigit(c) == \E d \in 1 .. Len(Digits) : Digits[d] = c
DigitValue(c) == (CHOOSE d \in 1 .. Len(Digits) : Digits[d] = c) - 1

RECURSIVE DecimalValue(_)
DecimalValue(s) ==
    IF s = <<>> THEN 0
    ELSE DecimalValue(SubSeq(s, 1, Len(s) - 1)) * Len(Digits) + DigitValue(s[Len(s)])

\* Number(idRaw) for a non-empty trimmed cell of digits and letters.
NumberOfText(s) == IF \A i \in 1 .. Len(s) : IsDigit(s[i]) THEN DecimalValue(s) ELSE NaN

\* ---- toCSV / fromCSV on token texts
Comma == ","
Quote == "\""
Newline == "\n"
CsvHeaders == <<"id", "first", "last", "position", "jersey", "team">>

RECURSIVE DecimalText(_)
DecimalText(n) ==
    IF n < Len(Digits) THEN <<Digits[n + 1]>>
    ELSE DecimalText(n \div Len(Digits)) \o <<Digits[(n % Len(Digits)) + 1]>>

\* (r[h] ?? "").toString() of a roster row: its id is a number, NaN or null,
\* its other fields are texts.
CellText(r, h) ==
    IF h # "id" THEN r[h]
    ELSE IF r.id = Null THEN <<>>
    ELSE IF r.id = NaN THEN <<"NaN">>
    ELSE DecimalText(r.id)

RECURSIVE DoubleQuotes(_)
DoubleQuotes(s) ==
    IF s = <<>> THEN <<>>
    ELSE (IF Head(s) = Quote THEN <<Quote, Quote>> ELSE <<Head(s)>>) \o DoubleQuotes(Tail(s))

\* esc(v) of toCSV, on the text t of v
esc(t) ==
    IF \E i \in 1 .. Len(t) : t[i] \in {Quote, Comma, Newline}
    THEN <<Quote>> \o DoubleQuotes(t) \o <<Quote>>
    ELSE t

\* Array.prototype.join
RECURSIVE Join(_, _)
Join(texts, sep) ==
    IF texts = <<>> THEN <<>>
    ELSE IF Len(texts) = 1 THEN texts[1]
    ELSE texts[1] \o <<sep>> \o Join(Tail(texts), sep)

toCSV(rows, headers) ==
    Join(<<Join([h \in 1 .. Len(headers) |-> <<headers[h]>>], Comma)>>
         \o [r \in 1 .. Len(rows) |->
                Join([h \in 1 .. Len(headers) |-> esc(CellText(rows[r], headers[h]))], Comma)],
         Newline)

\* String.prototype.split
RECURSIVE Split(_, _, _)
Split(text, sep, cur) ==
    IF text = <<>> THEN <<cur>>
    ELSE IF Head(text) = sep THEN <<cur>> \o Split(Tail(text), sep, <<>>)
    ELSE Split(Tail(text), sep, Append(cur, Head(text)))

\* parseLine of fromCSV, from position i with the cells, the current cell and
\* the in-quotes flag it has so far.
RECURSIVE parseLineFrom(_, _, _, _, _)
parseLineFrom(line, i, cells, cur, inQ) ==
    IF i > Len(line) THEN Append(cells, cur)
    ELSE IF line[i] = Quote
    THEN IF inQ /\ i < Len(line) /\ line[i + 1] = Quote
         THEN parseLineFrom(line, i + 2, cells, Append(cur, Quote), inQ)
         ELSE parseLineFrom(line, i + 1, cells, cur, ~inQ)
    ELSE IF line[i] = Comma /\ ~inQ
    THEN parseLineFrom(line, i + 1, Append(cells, cur), <<>>, inQ)
    ELSE parseLineFrom(line, i + 1, cells, Append(cur, line[i]), inQ)

parseLine(line) ==
    LET cells == parseLineFrom(line, 1, <<>>, <<>>, FALSE)
    IN  [c \in 1 .. Len(cells) |-> Trim(cells[c])]

\* fromCSV(text).rows for a text whose header line names the columns of
\* CsvHeaders: a row maps each header (its last occurrence) to its cell, ""
\* where the line has none.
fromCSV(text) ==
    LET lines == SelectSeq(Split(text, Newline, <<>>), LAMBDA l : Trim(l) # <<>>)
        headers == IF lines = <<>> THEN <<>> ELSE parseLine(lines[1])
        Column(h) == CHOOSE c \in 1 .. Len(headers) :
                        /\ headers[c] = <<h>>
                        /\ \A d \in (c + 1) .. Len(headers) : headers[d] # <<h>>
        Row(line) == LET cells == parseLine(line) IN
                     [h \in Range(CsvHeaders) |->
                        IF Column(h) <= Len(cells) THEN cells[Column(h)] ELSE <<>>]
    IN  [i \in 1 .. (Len(lines) - 1) |-> Row(lines[i + 1])]

\* exportRosterCSV(): the text handed to the download.
exportRosterCSV(doc) == toCSV(doc.roster, CsvHeaders)

\* byId.set(Number(a.id), a): an existing key keeps its place and takes the new value.
MapSet(entries, a) ==
    IF \E i \in 1 .. Len(entries) : SameValueZero(Number(entries[i].id), Number(a.id))
    THEN [i \in 1 .. Len(entries) |->
            IF SameValueZero(Number(entries[i].id), Number(a.id)) THEN a ELSE entries[i]]
    ELSE Append(entries, a)

RECURSIVE MapSetAll(_, _)
MapSetAll(entries, athletes) ==
    IF athletes = <<>> THEN entries
    ELSE MapSetAll(MapSet(entries, Head(athletes)), Tail(athletes))

\* The athlete a CSV row maps to; rnd is the random draw of its uidNumeric() call.
MappedAthlete(r, sec, rnd) ==
    [id |-> IF Trim(r.id) # <<>> THEN NumberOfText(Trim(r.id)) ELSE uidNumeric(sec, rnd),
     first |-> Trim(r.first), last |-> Trim(r.last), position |-> Trim(r.position),
     jersey |-> Trim(r.jersey), team |-> Trim(r.team)]

RECURSIVE MappedRows(_, _, _)
MappedRows(rows, sec, rnd) ==
    IF rows = <<>> THEN <<>>
    ELSE (IF Trim(rows[1].first) = <<>> /\ Trim(rows[1].last) = <<>> THEN <<>>
          ELSE <<MappedAthlete(rows[1], sec, rnd[1])>>)
         \o MappedRows(Tail(rows), sec, Tail(rnd))

CsvIds == {<<>>, <<"1", "0", "0", "0">>, <<"a">>}
CsvRow ==
    [id : CsvIds, first : {<<"C">>}, last : {<<"D">>}, position : Positions,
     jersey : Jerseys, team : Teams]
    \cup [id : {<<>>}, first : {<<>>}, last : {<<>>}, position : Positions,
          jersey : Jerseys, team : Teams]
CsvRows == UNION {[1 .. n -> CsvRow] : n \in 0 .. MaxCsvRows}

\* importRosterCSV(), from the point where the file's text was read.  A null row
\* of the roster throws while the map is built, before anything is changed.
importRosterCSV(rows, sec, rnd) ==
    LET merged == MapSetAll(MapSetAll(<<>>, state.roster), MappedRows(rows, sec, rnd))
        doc == [state EXCEPT !.roster = merged]
        rendered == [Views EXCEPT !.tsList = renderTimestampList(doc),
                                  !.pills = renderTaggedAthletes(doc, selectedTsId),
                                  !.athButtons = renderAthleteSearchResults(doc, selectedTsId)]
    IN
    /\ gesture' = Interrupted(gesture)
    /\ IF HasNull(state.roster)
       THEN UNCHANGED <<docVars, playerVars, selectedTsId, drawVars, uiVars>>
       ELSE /\ Len(merged) <= MaxRoster
            /\ state' = doc
            /\ stored' = saveState(doc)
            /\ delButtons' = renderRosterTable(doc)
            /\ SetViews(IF Truthy(selectedTsId)
                        THEN selectTimestamp(doc, selectedTsId, rendered)
                        ELSE rendered)
            /\ UNCHANGED <<playerVars, drawEnabled, activeStroke>>

\* --------------------------------------------------------------------- video
\* A pasted URL: whether new URL() accepts it, whether its host name includes
\* "youtu.be", its pathname as a text (the segments and the "/" between them are
\* tokens) and its v parameter ("" when it has none or an empty one).
Slash == "/"

\* String.prototype.replace with a string pattern: the first occurrence only.
RECURSIVE ReplaceFirst(_, _)
ReplaceFirst(s, x) ==
    IF s = <<>> THEN <<>>
    ELSE IF s[1] = x THEN Tail(s)
    ELSE <<s[1]>> \o ReplaceFirst(Tail(s), x)

\* the string a text stands for
RECURSIVE Concat(_)
Concat(s) == IF s = <<>> THEN "" ELSE s[1] \o Concat(Tail(s))

\* pathname.split("/").filter(Boolean)
PathParts(pathname) == SelectSeq(pathname, LAMBDA t : t # Slash)

IndexOf(segs, x) ==
    IF \E i \in 1 .. Len(segs) : segs[i] = x
    THEN CHOOSE i \in 1 .. Len(segs) : segs[i] = x /\ \A j \in 1 .. (i - 1) : segs[j] # x
    ELSE 0

parseYouTubeId(url) ==
    LET parts == PathParts(url.pathname)
        embedIdx == IndexOf(parts, "embed")
    IN  IF ~url.valid THEN ""
        ELSE IF url.shortHost THEN Concat(ReplaceFirst(url.pathname, Slash))
        ELSE IF url.v # "" THEN url.v
        ELSE IF embedIdx > 0 /\ embedIdx < Len(parts) THEN parts[embedIdx + 1]
        ELSE ""

ShortUrl == [text |-> "https://youtu.be/abc123", valid |-> TRUE, shortHost |-> TRUE,
             pathname |-> <<"/", "abc123">>, v |-> ""]
OtherUrl == [text |-> "https://example.com/about", valid |-> TRUE, shortHost |-> FALSE,
             pathname |-> <<"/", "about">>, v |-> ""]
LoadUrls == {ShortUrl, OtherUrl}

\* The URL shapes of the video field: the three recognised ones, short links
\* with a longer or an empty path, pages without an id, and text that is no URL.
Urls ==
    LoadUrls \cup
    { [text |-> "https://x.com/watch?v=xyz789", valid |-> TRUE, shortHost |-> FALSE,
       pathname |-> <<"/", "watch">>, v |-> "xyz789"],
      [text |-> "https://x.com/embed/abc123", valid |-> TRUE, shortHost |-> FALSE,
       pathname |-> <<"/", "embed", "/", "abc123">>, v |-> ""],
      [text |-> "https://x.com/embed", valid |-> TRUE, shortHost |-> FALSE,
       pathname |-> <<"/", "embed">>, v |-> ""],
      [text |-> "https://x.com/watch?v=", valid |-> TRUE, shortHost |-> FALSE,
       pathname |-> <<"/", "watch">>, v |-> ""],
      [text |-> "https://youtu.be/abc123/extra", valid |-> TRUE, shortHost |-> TRUE,
       pathname |-> <<"/", "abc123", "/", "extra">>, v |-> ""],
      [text |-> "https://youtu.be/", valid |-> TRUE, shortHost |-> TRUE,
       pathname |-> <<"/">>, v |-> ""],
      [text |-> "abc123", valid |-> FALSE, shortHost |-> FALSE,
       pathname |-> <<>>, v |-> ""] }

\* loadBtn.onclick
loadVideo(url) ==
    /\ gesture' = Interrupted(gesture)
    /\ IF parseYouTubeId(url) = ""
       THEN UNCHANGED <<docVars, playerVars, selectedTsId, drawVars, uiVars>>
       ELSE /\ state' = [state EXCEPT !.youtubeUrl = url.text,
                                      !.youtubeId = parseYouTubeId(url)]
            /\ stored' = saveState(state')
            /\ IF ~playerReady
               THEN /\ pendingVideoId' = parseYouTubeId(url)
                    /\ UNCHANGED playerVideo
               ELSE /\ playerVideo' = parseYouTubeId(url)
                    /\ UNCHANGED pendingVideoId
            /\ UNCHANGED <<apiInjected, player, playerReady, selectedTsId, drawVars,
                           uiVars>>

\* window.onYouTubeIframeAPIReady: the player object is constructed.
onYouTubeIframeAPIReady ==
    /\ apiInjected
    /\ ~player
    /\ player' = TRUE
    /\ playerVideo' = state.youtubeId
    /\ gesture' = Interrupted(gesture)
    /\ UNCHANGED <<docVars, apiInjected, playerReady, pendingVideoId, selectedTsId, drawVars,
                   uiVars>>

\* events.onReady cueing the queued id without emptying the queue.
onReady_keepsPending ==
    /\ player
    /\ ~playerReady
    /\ playerReady' = TRUE
    /\ playerVideo' = IF pendingVideoId # "" THEN pendingVideoId
                      ELSE IF state.youtubeId # "" THEN state.youtubeId ELSE playerVideo
    /\ gesture' = Interrupted(gesture)
    /\ UNCHANGED <<docVars, apiInjected, player, pendingVideoId, selectedTsId, drawVars,
                   uiVars>>

\* events.onReady of the player
onReady ==
    /\ player
    /\ ~playerReady
    /\ playerReady' = TRUE
    /\ IF pendingVideoId # ""
       THEN playerVideo' = pendingVideoId /\ pendingVideoId' = ""
       ELSE IF state.youtubeId # ""
       THEN playerVideo' = state.youtubeId /\ UNCHANGED pendingVideoId
       ELSE UNCHANGED <<playerVideo, pendingVideoId>>
    /\ gesture' = Interrupted(gesture)
    /\ UNCHANGED <<docVars, apiInjected, player, selectedTsId, drawVars, uiVars>>

\* ------------------------------------------------------------------- project
\* newProject() without its reset of activeStroke.
newProject_keepsActiveStroke(sec, rand) ==
    /\ state' = [state EXCEPT !.projectId = uidNumeric(sec, rand), !.timestamps = <<>>]
    /\ selectedTsId' = Null
    /\ drawings' = <<>>
    /\ pills' = NoButtons
    /\ stored' = saveState(state')
    /\ tsList' = renderTimestampList(state')
    /\ athButtons' = renderAthleteSearchResults(state', Null)
    /\ gesture' = Interrupted(gesture)
    /\ UNCHANGED <<playerVars, drawEnabled, activeStroke, delButtons>>

\* newProject()
newProject(sec, rand) ==
    /\ state' = [state EXCEPT !.projectId = uidNumeric(sec, rand), !.timestamps = <<>>]
    /\ selectedTsId' = Null
    /\ drawings' = <<>>
    /\ activeStroke' = <<>>
    /\ pills' = NoButtons
    /\ stored' = saveState(state')
    /\ tsList' = renderTimestampList(state')
    /\ athButtons' = renderAthleteSearchResults(state', Null)
    /\ gesture' = <<>>
    /\ UNCHANGED <<playerVars, drawEnabled, delButtons>>

\* exportProject(): the text handed to the download is JSON.stringify(state).
exportProject ==
    /\ download' = <<[file |-> JsonFile(state), of |-> state]>>
    /\ gesture' = Interrupted(gesture)
    /\ UNCHANGED <<docVars, playerVars, selectedTsId, drawVars, uiVars>>

EmptyDoc == [projectId |-> Null, youtubeUrl |-> "", youtubeId |-> "", roster |-> <<>>,
             timestamps |-> <<>>]
NotJsonFile == [parse |-> "error", hasRoster |-> FALSE, hasTimestamps |-> FALSE,
                doc |-> EmptyDoc]
NotObjectFile == [parse |-> "notobject", hasRoster |-> FALSE, hasTimestamps |-> FALSE,
                  doc |-> EmptyDoc]
NoRosterFile == [parse |-> "object", hasRoster |-> FALSE, hasTimestamps |-> TRUE,
                 doc |-> EmptyDoc]
NullRowFile == [parse |-> "object", hasRoster |-> TRUE, hasTimestamps |-> TRUE,
                doc |-> [EmptyDoc EXCEPT !.roster = <<NullElem>>]]
OtherProjectFile ==
    [parse |-> "object", hasRoster |-> TRUE, hasTimestamps |-> TRUE,
     doc |-> [projectId |-> Null, youtubeUrl |-> ShortUrl.text, youtubeId |-> "abc123",
              roster |-> <<[id |-> uidNumeric(1, 0), first |-> <<"A">>, last |-> <<"B">>,
                            position |-> <<>>, jersey |-> <<>>, team |-> <<>>]>>,
              timestamps |-> <<[id |-> uidNumeric(1, 0), time |-> 0, title |-> DefaultTitle,
                                description |-> <<>>,
                                taggedAthleteIds |-> <<uidNumeric(1, 0)>>,
                                drawings |-> <<>>]>>]]
\* A project without a video: {"youtubeUrl":"","youtubeId":"","roster":[],"timestamps":[]}
NoVideoFile == [parse |-> "object", hasRoster |-> TRUE, hasTimestamps |-> TRUE,
                doc |-> EmptyDoc]
ForeignFiles ==
    {NotJsonFile, NotObjectFile, NoRosterFile, NullRowFile, OtherProjectFile, NoVideoFile}

\* The files a user can pick: the foreign ones and the last download.
ProjectFiles == ForeignFiles \cup {download[i].file : i \in 1 .. Len(download)}

\* The checks of importProject before the document is replaced.
importRejected(file) ==
    file.parse # "object" \/ ~file.hasRoster \/ ~file.hasTimestamps

\* importProject ignoring the projectId of the file.
imported_alwaysFreshProjectId(file, sec, rand) ==
    [projectId |-> uidNumeric(sec, rand),
     youtubeUrl |-> file.doc.youtubeUrl,
     youtubeId |-> file.doc.youtubeId,
     roster |-> file.doc.roster,
     timestamps |-> file.doc.timestamps]

\* The document importProject builds from the parsed object.
imported(file, sec, rand) ==
    [projectId |-> IF file.doc.projectId = Null THEN uidNumeric(sec, rand)
                   ELSE file.doc.projectId,
     youtubeUrl |-> file.doc.youtubeUrl,
     youtubeId |-> file.doc.youtubeId,
     roster |-> file.doc.roster,
     timestamps |-> file.doc.timestamps]

\* The catch block of importProject is reached: the checks throw, or a render
\* after the replacement does.
importFails(file, sec, rand) ==
    importRejected(file) \/ renderRosterTableThrows(imported(file, sec, rand))

\* importProject(), from the point where the file's text was read.
importProject(file, sec, rand) ==
    IF importRejected(file)
    THEN /\ gesture' = Interrupted(gesture)
         /\ UNCHANGED <<docVars, playerVars, selectedTsId, drawVars, uiVars>>
    ELSE /\ state' = imported(file, sec, rand)
         /\ stored' = saveState(state')
         /\ delButtons' = renderRosterTable(state')
         /\ pills' = Retarget(pills, AfterReplace(pills.ts))
         /\ athButtons' = Retarget(athButtons, AfterReplace(athButtons.ts))
         /\ gesture' = IF gesture = <<>> THEN <<>>
                       ELSE <<[gesture[1] EXCEPT !.ts = AfterReplace(@), !.alone = FALSE]>>
         /\ UNCHANGED <<apiInjected, player, playerReady, drawEnabled, activeStroke>>
         /\ IF renderRosterTableThrows(state')
            THEN UNCHANGED <<pendingVideoId, playerVideo, selectedTsId, drawings, tsList>>
            ELSE /\ tsList' = renderTimestampList(state')
                 /\ selectedTsId' = Null
                 /\ drawings' = <<>>
                 /\ IF state'.youtubeId = "" THEN UNCHANGED <<pendingVideoId, playerVideo>>
                    ELSE IF playerReady
                    THEN playerVideo' = state'.youtubeId /\ UNCHANGED pendingVideoId
                    ELSE pendingVideoId' = state'.youtubeId /\ UNCHANGED playerVideo

\* ---------------------------------------------------------------- page load
\* The page is loaded again: the module's variables are initialised and init()
\* runs on the stored document.  A null roster row makes renderRosterTable throw
\* out of init(), before the lists are rendered and the player script is added.
init(sec, rand) ==
    /\ state' = loadState(stored, DefaultState(sec, rand))
    /\ delButtons' = renderRosterTable(state')
    /\ tsList' = IF renderRosterTableThrows(state') THEN {} ELSE renderTimestampList(state')
    /\ athButtons' = IF renderRosterTableThrows(state') THEN NoButtons
                     ELSE renderAthleteSearchResults(state', Null)
    /\ apiInjected' = ~renderRosterTableThrows(state')
    /\ pills' = NoButtons
    /\ player' = FALSE
    /\ playerReady' = FALSE
    /\ pendingVideoId' = ""
    /\ playerVideo' = ""
    /\ selectedTsId' = Null
    /\ drawEnabled' = FALSE
    /\ drawings' = <<>>
    /\ activeStroke' = <<>>
    /\ gesture' = <<>>
    /\ UNCHANGED stored

\* A field value that is an object but no array, as Array.isArray sees it.
NotArray == <<[isArray |-> FALSE]>>

\* What localStorage can hold when the page is opened: nothing, the text of a
\* project file written elsewhere, or an object whose roster and timestamps
\* are no arrays.
StoredValues ==
    {<<>>} \cup {<<file>> : file \in ForeignFiles}
           \cup {<<[parse |-> "object", hasRoster |-> FALSE, hasTimestamps |-> FALSE,
                    doc |-> [EmptyDoc EXCEPT !.roster = NotArray, !.timestamps = NotArray]]>>}

\* The page after init() ran on one of these values.
InitStored ==
    \E raw \in StoredValues, sec \in Clock, rand \in Rands :
        LET doc == loadState(raw, DefaultState(sec, rand)) IN
            /\ stored = raw
            /\ state = doc
            /\ delButtons = renderRosterTable(doc)
            /\ tsList = IF renderRosterTableThrows(doc) THEN {} ELSE renderTimestampList(doc)
            /\ athButtons = IF renderRosterTableThrows(doc) THEN NoButtons
                            ELSE renderAthleteSearchResults(doc, Null)
            /\ apiInjected = ~renderRosterTableThrows(doc)
            /\ pills = NoButtons
            /\ player = FALSE
            /\ playerReady = FALSE
            /\ pendingVideoId = ""
            /\ playerVideo = ""
            /\ selectedTsId = Null
            /\ drawEnabled = FALSE
            /\ drawings = <<>>
            /\ activeStroke = <<>>
            /\ download = <<>>
            /\ gesture = <<>>

\* -------------------------------------------------------------------- events
\* Each event with the inputs it can carry.  Only the export writes a download.
OnAddAthlete ==
    /\ \E first \in FirstNames, last \in LastNames, position \in Positions,
          jersey \in Jerseys, team \in Teams, sec \in Clock, rand \in Rands :
           addAthlete(first, last, position, jersey, team, sec, rand)
    /\ UNCHANGED download
OnDeleteAthlete == (\E id \in delButtons : deleteAthlete(id)) /\ UNCHANGED download
OnImportRosterCSV ==
    /\ \E rows \in CsvRows, sec \in Clock :
           \E rnd \in [1 .. Len(rows) -> Rands] : importRosterCSV(rows, sec, rnd)
    /\ UNCHANGED download
OnClearRoster == clearRoster /\ UNCHANGED download
OnClickTimestamp == (\E id \in tsList : clickTimestamp(id)) /\ UNCHANGED download
OnAddTimestamp ==
    /\ \E time \in Times, sec \in Clock, rand \in Rands :
           addTimestampAtCurrent(time, sec, rand)
    /\ UNCHANGED download
OnSaveTimestamp ==
    /\ \E title \in TitleInputs, description \in DescInputs :
           saveTimestampEdits(title, description)
    /\ UNCHANGED download
OnDeleteTimestamp == deleteTimestamp /\ UNCHANGED download
OnClickPill == (\E id \in pills.ids : clickPill(id)) /\ UNCHANGED download
OnClickTagButton == (\E id \in athButtons.ids : clickTagButton(id)) /\ UNCHANGED download
OnPointerDown ==
    /\ \E clientX \in ClientXs, clientY \in ClientYs, color \in Colors, size \in Sizes,
          sec \in Clock, rand \in Rands :
           pointerDown(clientX, clientY, color, size, sec, rand)
    /\ UNCHANGED download
OnPointerMove ==
    /\ \E clientX \in ClientXs, clientY \in ClientYs : pointerMove(clientX, clientY)
    /\ UNCHANGED download
OnPointerUp == pointerUp /\ UNCHANGED download
OnToggleDraw == toggleDraw /\ UNCHANGED download
OnClearDrawings == clearDrawings /\ UNCHANGED download
OnLoadVideo == (\E url \in LoadUrls : loadVideo(url)) /\ UNCHANGED download
\* Load is clicked with any of the URL shapes in the field.
OnLoadUrl == (\E url \in Urls : loadVideo(url)) /\ UNCHANGED download
OnApiReady == onYouTubeIframeAPIReady /\ UNCHANGED download
OnPlayerReady == onReady /\ UNCHANGED download
OnNewProject == (\E sec \in Clock, rand \in Rands : newProject(sec, rand)) /\ UNCHANGED download
OnExportProject == exportProject
OnImportProject ==
    /\ \E file \in ProjectFiles, sec \in Clock, rand \in Rands : importProject(file, sec, rand)
    /\ UNCHANGED download
\* The import of the file the last export wrote.
OnImportDownload ==
    /\ download # <<>>
    /\ \E sec \in Clock, rand \in Rands : importProject(download[1].file, sec, rand)
    /\ UNCHANGED download
\* The roster is exported to CSV and that file is imported into the same roster.
OnReimportRosterCSV ==
    /\ ~HasNull(state.roster)
    /\ \E sec \in Clock, rnd \in [1 .. Len(state.roster) -> Rands] :
           importRosterCSV(fromCSV(exportRosterCSV(state)), sec, rnd)
    /\ UNCHANGED download
OnPageLoad == (\E sec \in Clock, rand \in Rands : init(sec, rand)) /\ UNCHANGED download

\* ---------------------------------------------------------------------- next
Next ==
    \/ OnAddAthlete \/ OnDeleteAthlete \/ OnImportRosterCSV \/ OnClearRoster
    \/ OnClickTimestamp \/ OnAddTimestamp \/ OnSaveTimestamp \/ OnDeleteTimestamp
    \/ OnClickPill \/ OnClickTagButton
    \/ OnPointerDown \/ OnPointerMove \/ OnPointerUp \/ OnToggleDraw \/ OnClearDrawings
    \/ OnLoadVideo \/ OnApiReady \/ OnPlayerReady
    \/ OnNewProject \/ OnExportProject \/ OnImportProject
    \/ OnPageLoad

Spec == Init /\ [][Next]_vars

\* The roster manager and the tagging of annotations, with page reloads.
NextRoster ==
    \/ OnAddAthlete \/ OnDeleteAthlete \/ OnImportRosterCSV \/ OnClearRoster
    \/ OnApiReady \/ OnAddTimestamp \/ OnClickTimestamp \/ OnDeleteTimestamp
    \/ OnClickPill \/ OnClickTagButton
    \/ OnPageLoad

SpecRoster == Init /\ [][NextRoster]_vars

\* The same with the New project button.
NextTags ==
    \/ OnAddAthlete \/ OnDeleteAthlete \/ OnImportRosterCSV \/ OnClearRoster
    \/ OnApiReady \/ OnAddTimestamp \/ OnClickTimestamp \/ OnDeleteTimestamp
    \/ OnClickPill \/ OnClickTagButton
    \/ OnNewProject
    \/ OnPageLoad

SpecTags == Init /\ [][NextTags]_vars

\* The recorder with the events that change the selection, the annotations or
\* the document under a stroke in progress.
NextDraw ==
    \/ OnApiReady \/ OnAddTimestamp \/ OnClickTimestamp \/ OnDeleteTimestamp
    \/ OnPointerDown \/ OnPointerMove \/ OnPointerUp \/ OnToggleDraw \/ OnClearDrawings
    \/ OnNewProject

SpecDraw == Init /\ [][NextDraw]_vars


\* The project manager on documents of at most MaxDocument rows up to an
\* export, and from there the new project, the page reload and the import of
\* the exported file.
NextManager ==
    LET Editing == download = <<>>
        Small == Len(state'.roster) + Len(state'.timestamps) <= MaxDocument
    IN  \/ Editing /\ OnAddAthlete /\ Small
        \/ Editing /\ OnDeleteAthlete /\ Small
        \/ Editing /\ OnClearRoster /\ Small
        \/ Editing /\ OnApiReady /\ Small
        \/ Editing /\ OnAddTimestamp /\ Small
        \/ Editing /\ OnClickTimestamp /\ Small
        \/ Editing /\ OnSaveTimestamp /\ Small
        \/ Editing /\ OnDeleteTimestamp /\ Small
        \/ Editing /\ OnClickPill /\ Small
        \/ Editing /\ OnClickTagButton /\ Small
        \/ Editing /\ OnToggleDraw /\ Small
        \/ Editing /\ OnPointerDown /\ Small
        \/ Editing /\ OnPointerUp /\ Small
        \/ Editing /\ OnLoadVideo /\ Small
        \/ Editing /\ OnNewProject /\ Small
        \/ Editing /\ OnExportProject /\ Small
        \/ ~Editing /\ OnNewProject
        \/ ~Editing /\ OnPageLoad
        \/ ~Editing /\ OnImportDownload

SpecManager == Init /\ [][NextManager]_vars

\* The roster manager with its CSV file, with page reloads.
NextCsv ==
    \/ OnApiReady
    \/ OnAddAthlete \/ OnDeleteAthlete \/ OnClearRoster
    \/ OnImportRosterCSV \/ OnReimportRosterCSV
    \/ OnPageLoad

SpecCsv == Init /\ [][NextCsv]_vars

\* The import of project files written elsewhere.
NextProject ==
    \/ OnAddAthlete \/ OnApiReady \/ OnAddTimestamp \/ OnClickTimestamp \/ OnClickTagButton
    \/ OnLoadVideo \/ OnPlayerReady
    \/ OnNewProject \/ OnImportProject \/ OnPageLoad

SpecProject == Init /\ [][NextProject]_vars

\* The video field, the player's start-up and the project buttons.
NextVideo ==
    \/ OnApiReady \/ OnPlayerReady
    \/ OnLoadUrl
    \/ OnNewProject \/ OnImportProject \/ OnPageLoad

SpecVideo == Init /\ [][NextVideo]_vars

\* The page opened on any stored value, reloaded, and edited a little.
NextLoad ==
    \/ OnPageLoad
    \/ OnApiReady \/ OnAddAthlete \/ OnAddTimestamp \/ OnClickTimestamp

SpecLoad == InitStored /\ [][NextLoad]_vars

\* ==================================================================== claims

\* C1 (as claimed): the Delete button of an athlete with id X leaves X in no
\* annotation's tag list and in no roster row, and the document is persisted.
C1_DeleteRemovesAthleteAndTags ==
    [][\A i \in 1 .. Len(state.roster) :
        (~HasNull(state.roster) /\ deleteAthlete(AttrNumber(state.roster[i].id))) =>
            /\ \A j \in 1 .. Len(state'.roster) : state'.roster[j].id # state.roster[i].id
            /\ \A t \in 1 .. Len(state'.timestamps) :
                 state.roster[i].id \notin Range(state'.timestamps[t].taggedAthleteIds)
            /\ stored' = saveState(state')]_vars

\* C2 (as claimed): a valid add lengthens the roster by one with an id that no
\* athlete already in the roster has.
C2_AddGivesFreshId ==
    [][(OnAddAthlete /\ state'.roster # state.roster) =>
            /\ Len(state'.roster) = Len(state.roster) + 1
            /\ \A i \in 1 .. Len(state.roster) :
                 state.roster[i].id # state'.roster[Len(state'.roster)].id]_vars

\* C3 (as claimed): a handler that changes the document leaves in storage the
\* serialisation of the changed document, and a reload at that point restores
\* exactly that document.
C3_ChangeIsPersistedAndReloads ==
    [][(state' # state /\ ~OnPageLoad) =>
            /\ stored' = saveState(state')
            /\ \A sec \in Clock, rand \in Rands :
                 loadState(stored', DefaultState(sec, rand)) = state']_vars

C5_DisabledPointerEventsDoNothing ==
    [][((OnPointerDown \/ OnPointerMove \/ OnPointerUp)
            /\ (~drawEnabled \/ ~Truthy(selectedTsId))) =>
            /\ state' = state
            /\ stored' = stored
            /\ drawings' = drawings
            /\ (activeStroke = <<>> => activeStroke' = <<>>)
            /\ (OnPointerDown => activeStroke' = activeStroke)]_vars

C5_Witness ==
    /\ ~drawEnabled
    /\ activeStroke # <<>>
    /\ gesture[1].ended
    /\ Len(state.timestamps) > 0
    /\ TotalStrokes(state) = 0
    /\ stored = saveState(state)

\* C6 (as claimed): no stroke in progress outlives a pointer-up or
\* pointer-cancel: the event commits it and returns the recorder to idle.
C6_PointerUpEndsTheStroke == activeStroke = <<>> \/ gesture = <<>> \/ ~gesture[1].ended

\* C7 (as claimed): a stroke is committed to the annotation that was selected
\* at its pointer-down, whatever is selected at its pointer-up.
C7_StrokeGoesToAnnotationOfPointerDown ==
    [][(OnPointerUp /\ activeStroke # <<>> /\ activeStroke' = <<>>) =>
            /\ gesture[1].ts.kind = "live"
            /\ state'.timestamps[gesture[1].ts.idx].drawings
                 = Append(state.timestamps[gesture[1].ts.idx].drawings, activeStroke[1])]_vars

\* C8 (as claimed): selecting an annotation of the document makes the active
\* drawing buffer exactly that annotation's strokes.
C8_SelectLoadsStrokesOfSelected ==
    [][\A i \in 1 .. Len(state.timestamps) :
        clickTimestamp(state.timestamps[i].id) =>
            drawings' = state.timestamps[i].drawings]_vars

\* C9: the import of an exported file makes the document in memory, and the
\* stored one, equal to the document as it was when it was exported.
C9_ImportOfExportRestoresDocument ==
    [][OnImportDownload =>
            /\ state' = download[1].of
            /\ stored' = saveState(download[1].of)
            /\ \A sec \in Clock, rand \in Rands :
                 loadState(stored', DefaultState(sec, rand)) = download[1].of]_vars

C9_Witness ==
    /\ download # <<>>
    /\ state = download[1].of
    /\ stored = saveState(state)
    /\ selectedTsId = Null
    /\ ~player
    /\ state.youtubeId # ""
    /\ Len(state.roster) = 1
    /\ \E t \in 1 .. Len(state.timestamps) :
         /\ state.timestamps[t].taggedAthleteIds = <<state.roster[1].id>>
         /\ Len(state.timestamps[t].drawings) = 1
         /\ state.timestamps[t].title = <<"R">>

\* C10 (as claimed): an import that reports failure leaves the document in
\* memory and the stored document as they were, whatever the file.
C10_FailedImportChangesNothing ==
    [][\A file \in ProjectFiles, sec \in Clock, rand \in Rands :
        (importProject(file, sec, rand) /\ importFails(file, sec, rand)) =>
            (state' = state /\ stored' = stored)]_vars

\* C11 (as claimed): the import of the roster's own CSV export leaves the
\* roster as it was, and a second import of the same file changes nothing more.
C11_ReimportOfExportIsNoOp ==
    [][OnReimportRosterCSV =>
        LET rows == fromCSV(exportRosterCSV(state)) IN
            /\ state'.roster = state.roster
            /\ \A sec \in Clock, rnd \in [1 .. Len(rows) -> Rands] :
                 MapSetAll(MapSetAll(<<>>, state'.roster), MappedRows(rows, sec, rnd))
                    = state'.roster]_vars

\* C12: a new project empties the timestamps, the selection, the drawing
\* buffer and the stroke in progress, keeps the roster and the video url and
\* id, and stores the document.
C12_NewProjectKeepsRosterAndVideo ==
    [][OnNewProject =>
            /\ state'.timestamps = <<>>
            /\ selectedTsId' = Null
            /\ drawings' = <<>>
            /\ activeStroke' = <<>>
            /\ state'.roster = state.roster
            /\ state'.youtubeUrl = state.youtubeUrl
            /\ state'.youtubeId = state.youtubeId
            /\ stored' = saveState(state')]_vars

C12_Witness ==
    /\ download # <<>>
    /\ download[1].of.timestamps # <<>>
    /\ state.timestamps = <<>>
    /\ state.roster # <<>>
    /\ state.roster = download[1].of.roster
    /\ state.youtubeId # ""
    /\ state.youtubeId = download[1].of.youtubeId
    /\ selectedTsId = Null
    /\ drawEnabled
    /\ activeStroke = <<>>
    /\ stored = saveState(state)

\* C13: a video load requested before the player signalled ready (by the Load
\* button or by a project import) is queued and not sent to the player; the
\* ready signal cues the queued id and empties the queue; and from a ready
\* player on nothing is queued any more: a load is cued at once.
C13_LoadBeforeReadyIsQueuedThenCued ==
    [][/\ \A url \in Urls :
            (loadVideo(url) /\ parseYouTubeId(url) # "") =>
                IF playerReady
                THEN playerVideo' = parseYouTubeId(url) /\ pendingVideoId' = ""
                ELSE pendingVideoId' = parseYouTubeId(url) /\ playerVideo' = playerVideo
       /\ \A file \in ProjectFiles, sec \in Clock, rand \in Rands :
            (importProject(file, sec, rand) /\ ~importFails(file, sec, rand)
                /\ imported(file, sec, rand).youtubeId # "") =>
                IF playerReady
                THEN playerVideo' = imported(file, sec, rand).youtubeId /\ pendingVideoId' = ""
                ELSE /\ pendingVideoId' = imported(file, sec, rand).youtubeId
                     /\ playerVideo' = playerVideo
       /\ (OnPlayerReady /\ pendingVideoId # "") =>
            (playerVideo' = pendingVideoId /\ pendingVideoId' = "" /\ playerReady')
       /\ (playerReady /\ playerReady') => pendingVideoId' = ""]_vars

C13_Witness ==
    /\ player
    /\ ~playerReady
    /\ pendingVideoId = "xyz789"
    /\ playerVideo = "abc123"
    /\ state.youtubeId = "xyz789"
    /\ stored = saveState(state)

\* C14: an add whose first or last name is empty after trimming changes
\* nothing: the roster, the timestamps, the stored document and the rendered
\* rows stay as they were, whatever id the clock and the random digits would
\* have given.
C14_AddWithoutNameChangesNothing ==
    [][\A first \in FirstNames, last \in LastNames, position \in Positions,
          jersey \in Jerseys, team \in Teams, sec \in Clock, rand \in Rands :
        (addAthlete(first, last, position, jersey, team, sec, rand)
            /\ (Trim(first) = <<>> \/ Trim(last) = <<>>)) =>
            /\ state' = state
            /\ stored' = stored
            /\ delButtons' = delButtons
            /\ selectedTsId' = selectedTsId]_vars

C14_Witness ==
    /\ Len(state.roster) = 1
    /\ state.roster[1].first = <<"A">>
    /\ Len(state.timestamps) = 1
    /\ state.timestamps[1].taggedAthleteIds = <<state.roster[1].id>>
    /\ stored = saveState(state)
    /\ delButtons = {state.roster[1].id}

\* C15 (as claimed): wherever the roster is not empty and no annotation is
\* selected, a click on an athlete's tag button does not fail, and changes no
\* tag list and not the stored document.
C15_TagWithoutSelectionDoesNotFail ==
    (state.roster # <<>> /\ ~Truthy(selectedTsId)) =>
        \A id \in athButtons.ids :
            /\ ~clickTagButtonThrows(id)
            /\ ENABLED (clickTagButton(id) /\ state' = state /\ stored' = stored)

\* C16 (as claimed): a tag button appends the athlete's id to the selected
\* annotation's tag list only if it is not there, a pill removes every
\* occurrence of its id, no tag list ever holds an id twice, and neither click
\* changes anything but the tag list of the selected annotation.
C16_TagListsAreSets ==
    [][LET T == FindTs(state.timestamps, selectedTsId)
           tags == state.timestamps[T].taggedAthleteIds
           OnlyTagsOfSelected ==
               /\ state'.roster = state.roster
               /\ Len(state'.timestamps) = Len(state.timestamps)
               /\ \A t \in 1 .. Len(state.timestamps) :
                    t # T => state'.timestamps[t] = state.timestamps[t]
       IN  /\ \A id \in athButtons.ids :
                (clickTagButton(id) /\ ~clickTagButtonThrows(id)) =>
                    IF T = 0 THEN state' = state
                    ELSE /\ OnlyTagsOfSelected
                         /\ state'.timestamps[T].taggedAthleteIds =
                              IF id \in Range(tags) THEN tags ELSE Append(tags, id)
           /\ \A id \in pills.ids :
                clickPill(id) =>
                    IF T = 0 THEN state' = state
                    ELSE /\ OnlyTagsOfSelected
                         /\ state'.timestamps[T].taggedAthleteIds =
                              SelectSeq(tags, LAMBDA x : x # id)
           /\ \A t \in 1 .. Len(state'.timestamps) :
                \A i, j \in 1 .. Len(state'.timestamps[t].taggedAthleteIds) :
                    i # j => state'.timestamps[t].taggedAthleteIds[i]
                                # state'.timestamps[t].taggedAthleteIds[j]]_vars

\* C17 (as claimed): a CSV import skips the rows with neither first nor last
\* name; keeps, unchanged and in place, every athlete whose id no imported row
\* has; replaces in place the athlete whose id an imported row has; appends the
\* rows with new ids; and leaves the roster's ids pairwise distinct.
C17_ImportMergesById ==
    [][\A rows \in CsvRows, sec \in Clock :
        \A rnd \in [1 .. Len(rows) -> Rands] :
          (importRosterCSV(rows, sec, rnd) /\ ~HasNull(state.roster)) =>
            LET named == SelectSeq([i \in 1 .. Len(rows) |-> MappedAthlete(rows[i], sec, rnd[i])],
                                   LAMBDA a : a.first # <<>> \/ a.last # <<>>)
                old == {state.roster[i].id : i \in 1 .. Len(state.roster)}
                new == {named[k].id : k \in 1 .. Len(named)}
            IN  /\ Len(state'.roster) >= Len(state.roster)
                /\ \A i \in 1 .. Len(state.roster) :
                     state'.roster[i] =
                        IF state.roster[i].id \in new
                        THEN CHOOSE a \in Range(named) : a.id = state.roster[i].id
                        ELSE state.roster[i]
                /\ \A k \in 1 .. Len(named) :
                     named[k].id \notin old =>
                        \E j \in (Len(state.roster) + 1) .. Len(state'.roster) :
                            state'.roster[j] = named[k]
                /\ Cardinality({state'.roster[j].id : j \in 1 .. Len(state'.roster)})
                     = Len(state'.roster)
                /\ {state'.roster[j].id : j \in 1 .. Len(state'.roster)} = old \cup new]_vars

\* C18 (as claimed): an imported row whose id cell is empty or no number
\* becomes an athlete of its own with a number for id that no athlete had
\* before, so a roster with numbers for ids has numbers for ids after the
\* import and grows by one athlete for every such row.
C18_RowWithoutIdGetsFreshId ==
    [][\A rows \in CsvRows, sec \in Clock :
        \A rnd \in [1 .. Len(rows) -> Rands] :
          (importRosterCSV(rows, sec, rnd) /\ ~HasNull(state.roster)) =>
            LET NoId == {k \in 1 .. Len(rows) :
                            /\ Trim(rows[k].first) # <<>> \/ Trim(rows[k].last) # <<>>
                            /\ \/ Trim(rows[k].id) = <<>>
                               \/ NumberOfText(Trim(rows[k].id)) = NaN}
                old == {state.roster[i].id : i \in 1 .. Len(state.roster)}
            IN  /\ Len(state'.roster) >= Len(state.roster) + Cardinality(NoId)
                /\ \A k \in NoId :
                     \E j \in 1 .. Len(state'.roster) :
                         /\ state'.roster[j].first = Trim(rows[k].first)
                         /\ state'.roster[j].last = Trim(rows[k].last)
                         /\ state'.roster[j].id \notin old \cup {NaN, Null}
                /\ (old \cap {NaN, Null} = {}) =>
                     \A j \in 1 .. Len(state'.roster) : state'.roster[j].id \notin {NaN, Null}]_vars

\* C19: whatever storage holds, loadState() gives a document whose roster and
\* timestamps are arrays (the empty one where the stored field is none), and
\* with nothing stored, or a text that is no JSON object, the document is the
\* empty default one.
C19_LoadGivesArrays ==
    /\ state.roster # NotArray
    /\ state.timestamps # NotArray
    /\ (stored = <<>> \/ stored[1].parse # "object") =>
            \E sec \in Clock, rand \in Rands : state = DefaultState(sec, rand)
    /\ \A sec \in Clock, rand \in Rands :
         LET doc == loadState(stored, DefaultState(sec, rand)) IN
            /\ doc.roster # NotArray
            /\ doc.timestamps # NotArray
            /\ (stored = <<>> \/ stored[1].parse # "object") => doc = DefaultState(sec, rand)
            /\ (stored # <<>> /\ stored[1].parse = "object") =>
                  /\ doc.roster = IF stored[1].hasRoster THEN stored[1].doc.roster ELSE <<>>
                  /\ doc.timestamps = IF stored[1].hasTimestamps
                                      THEN stored[1].doc.timestamps ELSE <<>>

C19_Witness ==
    /\ stored # <<>>
    /\ stored[1].parse = "object"
    /\ stored[1].doc.roster = NotArray
    /\ stored[1].doc.timestamps = NotArray
    /\ state.roster = <<>>
    /\ state.timestamps = <<>>
    /\ player

\* C20 (as claimed): Load takes as the video id the path segment after a
\* short-link host, else the v parameter, else the segment after "embed", and
\* for every other URL or text the empty id; with the empty id it leaves the
\* document's url and id, the queue, the player and the stored document alone.
C20_LoadTakesIdOfRecognisedShapes ==
    [][\A url \in Urls :
        loadVideo(url) =>
            LET parts == PathParts(url.pathname)
                id == IF ~url.valid THEN ""
                      ELSE IF url.shortHost /\ parts # <<>> THEN parts[1]
                      ELSE IF url.v # "" THEN url.v
                      ELSE IF \E i \in 1 .. (Len(parts) - 1) : parts[i] = "embed"
                      THEN parts[1 + CHOOSE i \in 1 .. (Len(parts) - 1) :
                                        /\ parts[i] = "embed"
                                        /\ \A j \in 1 .. (i - 1) : parts[j] # "embed"]
                      ELSE ""
            IN  /\ parseYouTubeId(url) = id
                /\ IF id = ""
                   THEN /\ state' = state
                        /\ stored' = stored
                        /\ pendingVideoId' = pendingVideoId
                        /\ playerVideo' = playerVideo
                   ELSE /\ state'.youtubeId = id
                        /\ state'.youtubeUrl = url.text
                        /\ stored' = saveState(state')]_vars

\* C21 (as claimed): deleting the selected annotation removes exactly that one
\* annotation, leaves the others and the roster as they were, clears the
\* selection and the drawing buffer and stores the document; with nothing
\* selected the delete changes nothing.
C21_DeleteRemovesExactlyTheSelected ==
    [][OnDeleteTimestamp =>
        LET T == FindTs(state.timestamps, selectedTsId) IN
            IF ~Truthy(selectedTsId)
            THEN state' = state /\ stored' = stored /\ drawings' = drawings
            ELSE /\ T # 0
                 /\ state'.timestamps =
                        SubSeq(state.timestamps, 1, T - 1)
                            \o SubSeq(state.timestamps, T + 1, Len(state.timestamps))
                 /\ state'.roster = state.roster
                 /\ selectedTsId' = Null
                 /\ drawings' = <<>>
                 /\ stored' = saveState(state')]_vars

\* C22 (as claimed): with a player, Add timestamp appends one annotation with
\* the current whole second for time and no description, tags or strokes,
\* stores the document, and leaves that new annotation selected with an empty
\* drawing buffer; without a player it changes nothing.
C22_AddSelectsTheNewAnnotation ==
    [][\A time \in Times, sec \in Clock, rand \in Rands :
        addTimestampAtCurrent(time, sec, rand) =>
            IF ~player
            THEN /\ state' = state
                 /\ stored' = stored
                 /\ selectedTsId' = selectedTsId
                 /\ drawings' = drawings
            ELSE LET n == Len(state'.timestamps) IN
                 /\ n = Len(state.timestamps) + 1
                 /\ SubSeq(state'.timestamps, 1, n - 1) = state.timestamps
                 /\ state'.timestamps[n].time = time
                 /\ time \in Nat
                 /\ state'.timestamps[n].description = <<>>
                 /\ state'.timestamps[n].taggedAthleteIds = <<>>
                 /\ state'.timestamps[n].drawings = <<>>
                 /\ state'.roster = state.roster
                 /\ stored' = saveState(state')
                 /\ selectedTsId' = state'.timestamps[n].id
                 /\ FindTs(state'.timestamps, selectedTsId') = n
                 /\ drawings' = <<>>]_vars

\* C23 (as claimed): every stroke a pointer gesture committed to an
\* annotation has the tool "draw".
C23_CommittedStrokesHaveToolDraw ==
    \A t \in 1 .. Len(state.timestamps) :
        \A k \in 1 .. Len(state.timestamps[t].drawings) :
            /\ state.timestamps[t].drawings[k].tool \in {"draw", "erase"}
            /\ state.timestamps[t].drawings[k].tool = "draw"

\* C24 (as claimed): between handlers the selection is null or the id of an
\* annotation of the document, and the drawing buffer is that annotation's
\* stroke list, empty when nothing is selected.
C24_BufferIsTheSelectedAnnotations ==
    IF selectedTsId = Null
    THEN drawings = <<>>
    ELSE /\ FindTs(state.timestamps, selectedTsId) # 0
         /\ drawings = state.timestamps[FindTs(state.timestamps, selectedTsId)].drawings

\* C25 (as claimed): every id in every annotation's tag list is the id of an
\* athlete of the roster.
C25_TagsAreRosterIds ==
    \A t \in 1 .. Len(state.timestamps) :
        \A k \in 1 .. Len(state.timestamps[t].taggedAthleteIds) :
            \E i \in 1 .. Len(state.roster) :
                /\ state.roster[i] # NullElem
                /\ state.roster[i].id = state.timestamps[t].taggedAthleteIds[k]

C25_Witness ==
    /\ Len(state.roster) = 1
    /\ Len(state.timestamps) = 1
    /\ state.timestamps[1].taggedAthleteIds = <<state.roster[1].id>>
    /\ selectedTsId = Null
    /\ athButtons.ts.kind = "detached"
    /\ athButtons.ids = {state.roster[1].id}
    /\ stored = saveState(state)

\* C26 (as claimed): a queued video id is always the document's video id, so
\* the ready signal never cues a stale id.
C26_QueuedIdIsTheDocumentsId ==
    pendingVideoId # "" => pendingVideoId = state.youtubeId

====
